---- MODULE Spec2Model ----
(***************************************************************************)
(* A model of glider's PlanetDownloader                                    *)
(* (src/glider/pipelines/planet_downloader.py): the constructor, the AOI   *)
(* resolver, the catalog search, the metadata writer, the chunker and the  *)
(* sequential order loop of download().  The remote catalog, the order     *)
(* service and the geospatial file layer are collaborators: each of their  *)
(* calls is one step that either returns or raises.                        *)
(***************************************************************************)
EXTENDS Integers, Sequences, FiniteSets, TLC

VARIABLES
    env_key,        \* os.environ["PL_API_KEY"] (None when unset)
    key_arg,        \* __init__: the api_key argument
    api_key,        \* self.api_key
    dir_exists,     \* whether self.download_dir exists on disk
    pl_session,     \* self.pl_session: None, or the session and its credential
    pc,             \* position of the process in __init__ / download()
    args,           \* the arguments of the running download() call
    aoi,            \* search(): the resolved AOI
    items,          \* download(): the list of features the search returned
    item_ids,       \* download(): [i["id"] for i in items]
    pos,            \* the order loop: <<chunk index, item type index, bundle index>>
    order_id,       \* download(): the order id of the running combination
    calls,          \* log of the calls made to the collaborators, in order
    orders,         \* order service: the orders it holds, indexed by order id
    files,          \* the files of the download directory: name -> contents
    exc,            \* how the process ended: None, an exception or an exit status
    fn_in,          \* input of the pure function under check (function specs)
    fn_out          \* its result

vars == <<env_key, key_arg, api_key, dir_exists, pl_session, pc, args, aoi, items,
          item_ids, pos, order_id, calls, orders, files, exc, fn_in, fn_out>>

(***************************************************************************)
(* Program constants and bounds                                            *)
(***************************************************************************)
MAX_ITEMS_PER_ORDER == 500

\* the largest number of chunks a search result of the model splits into
MaxChunks == 3
\* the longest item_types / bundles list passed to download()
MaxTypes == 2
\* the largest of the small search results
MaxFew == 2
\* the longest list and the largest chunk size given to _chunk_list alone
MaxLen == 4
\* the number of cells of the line on which AOI geometries are drawn
MaxCell == 3

(***************************************************************************)
(* Python values                                                           *)
(***************************************************************************)
None == "<None>"

\* bool(x) of a str-or-None value
Truthy(x) == x \notin {None, ""}

\* a or b
PyOr(a, b) == IF Truthy(a) THEN a ELSE b

\* dict.get(key, default)
Get(d, key, default) == IF key \in DOMAIN d THEN d[key] ELSE default

Min(a, b) == IF a <= b THEN a ELSE b

\* mutant of Slice: the end of the slice is included
Slice_EndIncluded(lst, a, b) == SubSeq(lst, a + 1, Min(b + 1, Len(lst)))

\* lst[a:b] for 0 <= a, 0 <= b (0-based, end exclusive, clipped to the list)
Slice(lst, a, b) == SubSeq(lst, a + 1, Min(b, Len(lst)))

\* list(range(0, n, step)) for step >= 1
Range0(n, step) == [k \in 1..((n + step - 1) \div step) |-> (k - 1) * step]

(***************************************************************************)
(* _chunk_list: the generator's chunks, in the order it yields them        *)
(***************************************************************************)
\* mutant of ChunkList: the stop of the range rounded down to whole chunks, so
\* that a short last chunk is never yielded
ChunkList_DropShortTail(lst, chunk_size) ==
    LET starts == Range0(Len(lst) - (Len(lst) % chunk_size), chunk_size)
    IN  [k \in 1..Len(starts) |-> Slice(lst, starts[k], starts[k] + chunk_size)]

ChunkList(lst, chunk_size) ==
    LET starts == Range0(Len(lst), chunk_size)
    IN  [k \in 1..Len(starts) |-> Slice(lst, starts[k], starts[k] + chunk_size)]

(***************************************************************************)
(* datetime.strptime(s, "%Y-%m-%d").  A str is a sequence of characters.   *)
(* The format compiles to the pattern                                      *)
(*   (\d\d\d\d)-(1[0-2]|0[1-9]|[1-9])-(3[01]|[12]\d|0[1-9]|[1-9]| [1-9])   *)
(* which must consume the whole string, and the fields must then form a    *)
(* date that datetime() accepts.                                           *)
(***************************************************************************)
DigitVal == ("0" :> 0) @@ ("1" :> 1) @@ ("2" :> 2) @@ ("3" :> 3) @@ ("4" :> 4)
            @@ ("5" :> 5) @@ ("6" :> 6) @@ ("7" :> 7) @@ ("8" :> 8) @@ ("9" :> 9)

IsDigit(c) == c \in DOMAIN DigitVal

\* int() of a field of digits, a leading blank skipped
RECURSIVE IntOf(_)
IntOf(f) ==
    IF f = <<>> THEN 0
    ELSE IF f[Len(f)] = " " THEN 0
    ELSE 10 * IntOf(SubSeq(f, 1, Len(f) - 1)) + DigitVal[f[Len(f)]]

\* %Y : \d\d\d\d
YearField(f) == Len(f) = 4 /\ \A i \in 1..4 : IsDigit(f[i])

\* %m : 1[0-2] | 0[1-9] | [1-9]
MonthField(f) ==
    \/ Len(f) = 2 /\ f[1] = "1" /\ f[2] \in {"0", "1", "2"}
    \/ Len(f) = 2 /\ f[1] = "0" /\ IsDigit(f[2]) /\ f[2] # "0"
    \/ Len(f) = 1 /\ IsDigit(f[1]) /\ f[1] # "0"

\* %d : 3[01] | [12]\d | 0[1-9] | [1-9] | " "[1-9]
DayField(f) ==
    \/ Len(f) = 2 /\ f[1] = "3" /\ f[2] \in {"0", "1"}
    \/ Len(f) = 2 /\ f[1] \in {"1", "2"} /\ IsDigit(f[2])
    \/ Len(f) = 2 /\ f[1] \in {"0", " "} /\ IsDigit(f[2]) /\ f[2] # "0"
    \/ Len(f) = 1 /\ IsDigit(f[1]) /\ f[1] # "0"

IsLeap(y) == (y % 4 = 0 /\ y % 100 # 0) \/ y % 400 = 0

DaysInMonth(y, m) ==
    IF m = 2 THEN (IF IsLeap(y) THEN 29 ELSE 28)
    ELSE IF m \in {4, 6, 9, 11} THEN 30 ELSE 31

\* the ways the pattern splits s into its three fields (at most one)
DateSplits(s) ==
    {w \in (1..2) \X (1..2) :
        /\ Len(s) = 6 + w[1] + w[2]
        /\ YearField(SubSeq(s, 1, 4))
        /\ s[5] = "-"
        /\ MonthField(SubSeq(s, 6, 5 + w[1]))
        /\ s[6 + w[1]] = "-"
        /\ DayField(SubSeq(s, 7 + w[1], Len(s)))}

\* a raised exception, as the value of the call that raised it
Raise(e) == [raise |-> e]

Raised(x) == DOMAIN x = {"raise"}

\* the parsed date, or ValueError
Strptime(s) ==
    IF DateSplits(s) = {} THEN Raise("ValueError")
    ELSE LET w == CHOOSE x \in DateSplits(s) : TRUE
             y == IntOf(SubSeq(s, 1, 4))
             m == IntOf(SubSeq(s, 6, 5 + w[1]))
             d == IntOf(SubSeq(s, 7 + w[1], Len(s)))
         IN  IF y >= 1 /\ d <= DaysInMonth(y, m)
             THEN [year |-> y, month |-> m, day |-> d]
             ELSE Raise("ValueError")

(***************************************************************************)
(* _load_aoi.  A geometry_info is a str, Path(p), or a geometry structure  *)
(* {"type": .., "coordinates": ..}.  Geometries are drawn on a line of     *)
(* MaxCell cells: the coordinates of a geometry are the cells it covers.   *)
(***************************************************************************)
Path(p) == [str |-> p]

\* isinstance(g, str)
IsStr(g) == DOMAIN g = {"str"}

Geometry(t, c) == [type |-> t, coordinates |-> c]

\* the vector files on disk: the geometries of the features of each
VectorFiles ==
    ("aoi.geojson" :> <<{1, 2}>>) @@
    ("tiles.shp" :> <<{1}, {2}, {2, 3}>>) @@
    ("islands.gpkg" :> <<{1}, {3}>>)

\* gpd.read_file(path) raises when there is no such file
Readable(path) == path \in DOMAIN VectorFiles

\* gpd.read_file(path): the geometry column of a readable file
ReadFile(path) == VectorFiles[path]

\* GeoSeries.unary_union: the features dissolved into one geometry
UnaryUnion(geoms) == UNION {geoms[i] : i \in DOMAIN geoms}

Contiguous(c) == \A a \in c, b \in c : \A x \in a..b : x \in c

\* shapely.geometry.mapping: a geometry as a structure
Mapping(c) ==
    Geometry(IF c = {} THEN "GeometryCollection"
             ELSE IF Contiguous(c) THEN "Polygon" ELSE "MultiPolygon", c)

\* shapely.geometry.shape: a structure as a geometry object
Shape(g) == [shapely |-> g.type, cells |-> g.coordinates]

\* mutant of LoadAoi: a structure is rebuilt through shape() and mapping()
LoadAoi_Rebuilt(geometry_info) ==
    IF IsStr(geometry_info)
    THEN IF Readable(geometry_info.str)
         THEN Mapping(UnaryUnion(ReadFile(geometry_info.str)))
         ELSE Raise("DriverError")
    ELSE Mapping(Shape(geometry_info).cells)

\* _load_aoi(geometry_info): the AOI, or the error read_file raises
LoadAoi(geometry_info) ==
    IF IsStr(geometry_info)
    THEN IF Readable(geometry_info.str)
         THEN Mapping(UnaryUnion(ReadFile(geometry_info.str)))
         ELSE Raise("DriverError")
    ELSE geometry_info

(***************************************************************************)
(* search: the filter it builds, and the features the catalog returns      *)
(***************************************************************************)
\* data_filter.and_filter([permission, date_range('acquired'), range('cloud_cover')])
SearchFilter(start, end, cloud_cover) ==
    [type |-> "AndFilter",
     config |-> << [type |-> "PermissionFilter"],
                   [type |-> "DateRangeFilter", field_name |-> "acquired",
                    gte |-> start, lte |-> end],
                   [type |-> "RangeFilter", field_name |-> "cloud_cover",
                    lte |-> cloud_cover] >>]

\* the i-th feature of a search result: every third one carries no
\* "properties" key, the others a property mapping without an "id"
Feature(i) ==
    IF i % 3 = 0
    THEN [id |-> i, geometry |-> Geometry("Polygon", {1 + (i % 2)})]
    ELSE [id |-> i, geometry |-> Geometry("Polygon", {1 + (i % 2)}),
          properties |-> [cloud_cover |-> i % 2]]

\* the search results of the model: n features with the ids 1..n
Features(n) == [i \in 1..n |-> Feature(i)]

(***************************************************************************)
(* _write_metadata                                                         *)
(***************************************************************************)
\* d[k] = v on a dict
SetKey(d, k, v) == [x \in DOMAIN d \cup {k} |-> IF x = k THEN v ELSE d[x]]

EmptyDict == [x \in {} |-> None]

\* props after  props = item.get("properties", {}); props["id"] = item.get("id")
PropsOf(item) == SetKey(Get(item, "properties", EmptyDict), "id", Get(item, "id", None))

\* the item after the loop body: props is the item's own mapping when it has one
ItemAfter(item) ==
    IF "properties" \in DOMAIN item
    THEN [item EXCEPT !.properties = PropsOf(item)]
    ELSE item

\* {**props, "geometry": shape(item.get("geometry"))}
FlatRecord(item) == SetKey(PropsOf(item), "geometry", Shape(item.geometry))

\* the records of the GeoDataFrame
GdfRecords(metadata) == [k \in DOMAIN metadata |-> FlatRecord(metadata[k])]

\* the list the caller passed, as the loop leaves it
MetadataAfter(metadata) == [k \in DOMAIN metadata |-> ItemAfter(metadata[k])]

Ext(driver) == IF driver = "GeoJSON" THEN "geojson" ELSE "gpkg"

\* os.path.join(download_dir, f'metadata-{now:%Y%m%d_%H%M%S}.{ext}')
MetadataPath(timestamp, driver) == <<"metadata", timestamp, Ext(driver)>>

\* mutant of MetadataFile: the table holds the features of the first chunk only
MetadataFile_FirstChunkOnly(metadata, driver) ==
    [driver |-> driver, crs |-> "EPSG:4326",
     features |-> GdfRecords(Slice(metadata, 0, MAX_ITEMS_PER_ORDER))]

\* the file gdf.to_file writes
MetadataFile(metadata, driver) ==
    [driver |-> driver, crs |-> "EPSG:4326", features |-> GdfRecords(metadata)]

(***************************************************************************)
(* _create_order: the request it builds                                    *)
(***************************************************************************)
OrderRequest(ids, item_type, bundle) ==
    [name |-> "planet_download_order",
     products |-> << [item_ids |-> ids, item_type |-> item_type,
                      product_bundle |-> bundle] >>,
     delivery |-> [single_archive |-> TRUE]]

\* the archive download_order writes for an order
ArchivePath(id) == <<"order", id>>

(***************************************************************************)
(* The order loop of download(): for chunk / for item_type / for bundle    *)
(***************************************************************************)
Done == <<0, 0, 0>>

\* mutant of FirstPos: the loop body is entered whenever there is a chunk
FirstPos_ChunksOnly(nchunks, ntypes, nbundles) ==
    IF nchunks >= 1 THEN <<1, 1, 1>> ELSE Done

\* the first combination the three nested loops reach, Done when there is none
FirstPos(nchunks, ntypes, nbundles) ==
    IF nchunks >= 1 /\ ntypes >= 1 /\ nbundles >= 1 THEN <<1, 1, 1>> ELSE Done

\* mutant of NextPos: the loops over item types and bundles swapped
NextPos_TypeInnermost(p, nchunks, ntypes, nbundles) ==
    IF p[2] < ntypes THEN <<p[1], p[2] + 1, p[3]>>
    ELSE IF p[3] < nbundles THEN <<p[1], 1, p[3] + 1>>
    ELSE IF p[1] < nchunks THEN <<p[1] + 1, 1, 1>>
    ELSE Done

\* the combination after p: the innermost loop advances first
NextPos(p, nchunks, ntypes, nbundles) ==
    IF p[3] < nbundles THEN <<p[1], p[2], p[3] + 1>>
    ELSE IF p[2] < ntypes THEN <<p[1], p[2] + 1, 1>>
    ELSE IF p[1] < nchunks THEN <<p[1] + 1, 1, 1>>
    ELSE Done

\* the chunks of the running download()
Chunks == ChunkList(item_ids, MAX_ITEMS_PER_ORDER)

(***************************************************************************)
(* The inputs of the model                                                 *)
(***************************************************************************)
EnvKeys == {None, "", "env-key"}

ApiKeyArgs == {None, "", "arg-key"}

GeometryInfos ==
    {Geometry("Polygon", {1, 2}), Path("aoi.geojson"), Path("missing.shp")}

StartDates ==
    { <<"2", "0", "2", "0", "-", "0", "1", "-", "0", "1">>,
      <<"2", "0", "2", "0", "-", "1", "-", "5">>,
      <<"2", "0", "2", "0", "/", "0", "1", "/", "0", "1">>,
      <<"2", "0", "2", "0", "-", "0", "2", "-", "3", "0">> }

EndDates ==
    { <<"2", "0", "2", "0", "-", "0", "2", "-", "0", "1">>,
      <<"0", "2", "/", "0", "1", "/", "2", "0", "2", "0">> }

AllItemTypes == <<"PSScene", "REOrthoTile", "SkySatCollect", "REScene">>

AllBundles == <<"analytic_udm2", "visual", "analytic_sr_udm2", "basic_analytic_udm2">>

\* the lists passed as item_types and as bundles: of 0..MaxTypes names; a
\* list may name an item type twice
ItemTypeLists ==
    {SubSeq(AllItemTypes, 1, n) : n \in 0..MaxTypes}
        \cup {<<AllItemTypes[1], AllItemTypes[1]>>}

BundleLists == {SubSeq(AllBundles, 1, n) : n \in 0..MaxTypes}

\* threads: the default, and the value of the module's own main
ThreadCounts == {4, 6}

\* the sizes of the search results: none, and a few features
SearchSizes == 0..MaxFew

\* the sizes of the large search results: one chunk, MaxChunks - 1 full chunks,
\* and MaxChunks chunks of which the last is not full
BulkSizes ==
    {10, MAX_ITEMS_PER_ORDER * (MaxChunks - 1), MAX_ITEMS_PER_ORDER * MaxChunks - 300}

\* datetime.now(), to the second, when the metadata file is named
Timestamps == {"20200301_093000"}

\* the arguments of download(): cloud_cover is in hundredths (0.2), overwrite
\* and progress_bar have their defaults
DownloadArgs ==
    [geometry_info : GeometryInfos, start_date : StartDates, end_date : EndDates,
     item_types : ItemTypeLists, bundles : BundleLists, cloud_cover : {20},
     threads : ThreadCounts, overwrite : {FALSE}, progress_bar : {TRUE}]

\* the call of the module's own main (threads=6), with every item_types and
\* bundles list
BulkArgs ==
    {a \in DownloadArgs :
        /\ a.geometry_info = Geometry("Polygon", {1, 2})
        /\ a.threads = 6
        /\ Strptime(a.start_date) = [year |-> 2020, month |-> 1, day |-> 1]
        /\ Strptime(a.end_date) = [year |-> 2020, month |-> 2, day |-> 1]}

NoArgs == [geometry_info |-> None]

\* the inputs of _chunk_list checked alone: every list of at most MaxLen
\* items, every chunk size of 1..MaxLen
ChunkInputs ==
    [fn : {"_chunk_list"},
     lst : UNION {[1..n -> {"a", "b"}] : n \in 0..MaxLen},
     chunk_size : 1..MaxLen]

GeometryTypes == {"Polygon", "MultiPolygon", "Point", "GeometryCollection"}

\* the inputs of _load_aoi checked alone: every structure over the cells,
\* well-formed or not, and the paths of the files and of a missing file
AoiInputs ==
    [fn : {"_load_aoi"},
     geometry_info : {Geometry(t, c) : t \in GeometryTypes, c \in SUBSET (1..MaxCell)}
                     \cup {Path(p) : p \in DOMAIN VectorFiles \cup {"missing.shp"}}]

NoCall == [fn |-> "none"]

NoResult == [n |-> 0]

(***************************************************************************)
(* The process: PlanetDownloader(...) and then download(...)               *)
(***************************************************************************)
\* self.pl_session before __init__ sets it
NoSession == [created |-> FALSE]

\* the locals aoi (search) and order_id (download) before they are assigned
NoAoi == [type |-> None]

NoOrder == 0

ProcInit ==
    /\ env_key \in EnvKeys
    /\ key_arg = None
    /\ api_key = None
    /\ dir_exists = FALSE
    /\ pl_session = NoSession
    /\ pc = "new"
    /\ args = NoArgs
    /\ aoi = NoAoi
    /\ items = <<>>
    /\ item_ids = <<>>
    /\ pos = Done
    /\ order_id = NoOrder
    /\ calls = <<>>
    /\ orders = <<>>
    /\ files = EmptyDict
    /\ exc = None

Init ==
    /\ ProcInit
    /\ fn_in = NoCall
    /\ fn_out = NoResult

\* an exception leaves the process: nothing catches it
Propagate(e) ==
    /\ pc' = "raised"
    /\ exc' = e

\* Planet(): the session takes its credential from the environment
Planet == [created |-> TRUE, auth |-> env_key]

\* the exit status of the process: 0 when download() returned; 1 after
\* sys.exit(message) and after an exception nothing caught
ExitStatus == IF exc = None THEN 0 ELSE 1

\* mutant of Construct: the session is opened before the key is checked
Construct_SessionFirst(key) ==
    /\ pc = "new"
    /\ key_arg' = key
    /\ api_key' = PyOr(key, env_key)
    /\ pl_session' = Planet
    /\ IF ~Truthy(api_key')
       THEN /\ Propagate("ValueError")
            /\ UNCHANGED dir_exists
       ELSE /\ dir_exists' = TRUE
            /\ pc' = "constructed"
            /\ exc' = None
    /\ UNCHANGED <<env_key, args, aoi, items, item_ids, pos, order_id, calls,
                   orders, files, fn_in, fn_out>>

\* __init__(api_key=key)
Construct(key) ==
    /\ pc = "new"
    /\ key_arg' = key
    /\ api_key' = PyOr(key, env_key)
    /\ IF ~Truthy(api_key')
       THEN /\ Propagate("ValueError")
            /\ UNCHANGED <<dir_exists, pl_session>>
       ELSE /\ dir_exists' = TRUE
            /\ pl_session' = Planet
            /\ pc' = "constructed"
            /\ exc' = None
    /\ UNCHANGED <<env_key, args, aoi, items, item_ids, pos, order_id, calls,
                   orders, files, fn_in, fn_out>>

\* download(**a) is entered; search() is entered
Download(a) ==
    /\ pc = "constructed"
    /\ args' = a
    /\ pc' = "load_aoi"
    /\ UNCHANGED <<env_key, key_arg, api_key, dir_exists, pl_session, aoi, items, item_ids,
                   pos, order_id, calls, orders, files, exc, fn_in, fn_out>>

\* search(): aoi = self._load_aoi(geometry_info)
ResolveAoi ==
    /\ pc = "load_aoi"
    /\ LET a == LoadAoi(args.geometry_info)
       IN  /\ calls' = IF IsStr(args.geometry_info)
                       THEN Append(calls, [op |-> "read_file",
                                           path |-> args.geometry_info.str])
                       ELSE calls
           /\ IF Raised(a)
              THEN Propagate(a.raise) /\ UNCHANGED aoi
              ELSE aoi' = a /\ pc' = "parse_dates" /\ UNCHANGED exc
    /\ UNCHANGED <<env_key, key_arg, api_key, dir_exists, pl_session, args, items, item_ids,
                   pos, order_id, orders, files, fn_in, fn_out>>

\* mutant of ParseDates: only start_date is parsed before the search
ParseDates_StartOnly ==
    /\ pc = "parse_dates"
    /\ IF Raised(Strptime(args.start_date))
       THEN Propagate("ValueError")
       ELSE pc' = "search" /\ UNCHANGED exc
    /\ UNCHANGED <<env_key, key_arg, api_key, dir_exists, pl_session, args, aoi, items,
                   item_ids, pos, order_id, calls, orders, files, fn_in, fn_out>>

\* search(): the two strptime calls; then data.search(...) is called
ParseDates ==
    /\ pc = "parse_dates"
    /\ IF Raised(Strptime(args.start_date)) \/ Raised(Strptime(args.end_date))
       THEN Propagate("ValueError")
       ELSE pc' = "search" /\ UNCHANGED exc
    /\ UNCHANGED <<env_key, key_arg, api_key, dir_exists, pl_session, args, aoi, items,
                   item_ids, pos, order_id, calls, orders, files, fn_in, fn_out>>

\* the call data.search(item_type, geometry=aoi, search_filter=sfilter)
SearchCall ==
    [op |-> "search", item_types |-> args.item_types, geometry |-> aoi,
     search_filter |-> SearchFilter(Strptime(args.start_date),
                                    Strptime(args.end_date), args.cloud_cover)]

\* search(): data.search(...) returns n features, which list() materialises
SearchReturns(n) ==
    /\ pc = "search"
    /\ calls' = Append(calls, SearchCall)
    /\ items' = Features(n)
    /\ pc' = "check_items"
    /\ UNCHANGED <<env_key, key_arg, api_key, dir_exists, pl_session, args, aoi, item_ids,
                   pos, order_id, orders, files, exc, fn_in, fn_out>>

\* search(): data.search(...) raises
SearchRaises ==
    /\ pc = "search"
    /\ calls' = Append(calls, SearchCall)
    /\ Propagate("SearchError")
    /\ UNCHANGED <<env_key, key_arg, api_key, dir_exists, pl_session, args, aoi, items,
                   item_ids, pos, order_id, orders, files, fn_in, fn_out>>

\* mutant of CheckItems: the test for an empty result is missing
CheckItems_NoExit ==
    /\ pc = "check_items"
    /\ item_ids' = [k \in DOMAIN items |-> items[k].id]
    /\ pc' = "write_metadata"
    /\ UNCHANGED <<env_key, key_arg, api_key, dir_exists, pl_session, args, aoi, items,
                   pos, order_id, calls, orders, files, exc, fn_in, fn_out>>

\* download(): if not items: sys.exit(...); item_ids = [i["id"] for i in items]
CheckItems ==
    /\ pc = "check_items"
    /\ IF Len(items) = 0
       THEN /\ pc' = "exit"
            /\ exc' = "SystemExit"
            /\ UNCHANGED item_ids
       ELSE /\ item_ids' = [k \in DOMAIN items |-> items[k].id]
            /\ pc' = "write_metadata"
            /\ UNCHANGED exc
    /\ UNCHANGED <<env_key, key_arg, api_key, dir_exists, pl_session, args, aoi, items,
                   pos, order_id, calls, orders, files, fn_in, fn_out>>

\* _write_metadata(items): the loop over the features runs, then gdf.to_file
\* writes the file named after the clock's second
WriteMetadataReturns(timestamp) ==
    /\ pc = "write_metadata"
    /\ items' = MetadataAfter(items)
    /\ calls' = Append(calls, [op |-> "to_file",
                               path |-> MetadataPath(timestamp, "GeoJSON"),
                               driver |-> "GeoJSON"])
    /\ files' = SetKey(files, MetadataPath(timestamp, "GeoJSON"),
                       MetadataFile(items, "GeoJSON"))
    /\ pos' = FirstPos(Len(Chunks), Len(args.item_types), Len(args.bundles))
    /\ pc' = IF pos' = Done THEN "done" ELSE "create_order"
    /\ UNCHANGED <<env_key, key_arg, api_key, dir_exists, pl_session, args, aoi, item_ids,
                   order_id, orders, exc, fn_in, fn_out>>

\* _write_metadata(items): gdf.to_file raises
WriteMetadataRaises(timestamp) ==
    /\ pc = "write_metadata"
    /\ items' = MetadataAfter(items)
    /\ calls' = Append(calls, [op |-> "to_file",
                               path |-> MetadataPath(timestamp, "GeoJSON"),
                               driver |-> "GeoJSON"])
    /\ Propagate("WriteError")
    /\ UNCHANGED <<env_key, key_arg, api_key, dir_exists, pl_session, args, aoi, item_ids,
                   pos, order_id, orders, files, fn_in, fn_out>>

\* the request of the running combination
CurrentRequest ==
    OrderRequest(Chunks[pos[1]], args.item_types[pos[2]], args.bundles[pos[3]])

\* mutant of CreateOrderReturns: the next combination's order is submitted
\* before this one is waited for
CreateOrderReturns_SubmitAhead ==
    LET next == NextPos(pos, Len(Chunks), Len(args.item_types), Len(args.bundles))
    IN  /\ pc = "create_order"
        /\ calls' = Append(calls, [op |-> "create_order", request |-> CurrentRequest,
                                   order_id |-> Len(orders) + 1])
        /\ orders' = Append(orders, [request |-> CurrentRequest, state |-> "queued"])
        /\ order_id' = Len(orders')
        /\ pos' = IF next = Done THEN pos ELSE next
        /\ pc' = IF next = Done THEN "wait" ELSE "create_order"
        /\ UNCHANGED <<env_key, key_arg, api_key, dir_exists, pl_session, args, aoi,
                       items, item_ids, files, exc, fn_in, fn_out>>

\* _create_order(chunk, item_type, bundle): orders.create_order returns an order
CreateOrderReturns ==
    /\ pc = "create_order"
    /\ calls' = Append(calls, [op |-> "create_order", request |-> CurrentRequest,
                               order_id |-> Len(orders) + 1])
    /\ orders' = Append(orders, [request |-> CurrentRequest, state |-> "queued"])
    /\ order_id' = Len(orders')
    /\ pc' = "wait"
    /\ UNCHANGED <<env_key, key_arg, api_key, dir_exists, pl_session, args, aoi, items,
                   item_ids, pos, files, exc, fn_in, fn_out>>

\* _create_order(chunk, item_type, bundle): orders.create_order raises
CreateOrderRaises ==
    /\ pc = "create_order"
    /\ calls' = Append(calls, [op |-> "create_order", request |-> CurrentRequest])
    /\ Propagate("OrderError")
    /\ UNCHANGED <<env_key, key_arg, api_key, dir_exists, pl_session, args, aoi, items,
                   item_ids, pos, order_id, orders, files, fn_in, fn_out>>

\* mutant of WaitReturns: the order is polled again and again, and the call
\* never returns
WaitReturns_PollsForever ==
    /\ pc = "wait"
    /\ pc' = "wait"
    /\ UNCHANGED <<env_key, key_arg, api_key, dir_exists, pl_session, args, aoi, items,
                   item_ids, pos, order_id, calls, orders, files, exc, fn_in, fn_out>>

\* orders.wait(order_id) returns: the order is ready
WaitReturns ==
    /\ pc = "wait"
    /\ calls' = Append(calls, [op |-> "wait", order_id |-> order_id])
    /\ orders' = [orders EXCEPT ![order_id].state = "success"]
    /\ pc' = "download_order"
    /\ UNCHANGED <<env_key, key_arg, api_key, dir_exists, pl_session, args, aoi, items,
                   item_ids, pos, order_id, files, exc, fn_in, fn_out>>

\* mutant of WaitRaises: the error is caught and the wait is tried again
WaitRaises_Retry ==
    /\ pc = "wait"
    /\ calls' = Append(calls, [op |-> "wait", order_id |-> order_id])
    /\ orders' = [orders EXCEPT ![order_id].state = "failed"]
    /\ exc' = "OrderError"
    /\ UNCHANGED <<env_key, key_arg, api_key, dir_exists, pl_session, pc, args, aoi,
                   items, item_ids, pos, order_id, files, fn_in, fn_out>>

\* orders.wait(order_id) raises: the order failed
WaitRaises ==
    /\ pc = "wait"
    /\ calls' = Append(calls, [op |-> "wait", order_id |-> order_id])
    /\ orders' = [orders EXCEPT ![order_id].state = "failed"]
    /\ Propagate("OrderError")
    /\ UNCHANGED <<env_key, key_arg, api_key, dir_exists, pl_session, args, aoi, items,
                   item_ids, pos, order_id, files, fn_in, fn_out>>

\* mutant of DownloadCall: threads is handed to the download
DownloadCall_Threaded ==
    [op |-> "download_order", order_id |-> order_id, directory |-> "download_dir",
     overwrite |-> args.overwrite, progress_bar |-> args.progress_bar,
     threads |-> args.threads]

\* the call orders.download_order(order_id, directory=.., overwrite=..,
\* progress_bar=..)
DownloadCall ==
    [op |-> "download_order", order_id |-> order_id, directory |-> "download_dir",
     overwrite |-> args.overwrite, progress_bar |-> args.progress_bar]

\* the position of the process once a combination's download has returned
AfterDownload ==
    NextPos(pos, Len(Chunks), Len(args.item_types), Len(args.bundles))

\* orders.download_order(order_id, ...) returns: the archive is on disk; the
\* loops go on to the next combination
DownloadOrderReturns ==
    /\ pc = "download_order"
    /\ calls' = Append(calls, DownloadCall)
    /\ files' = IF ArchivePath(order_id) \in DOMAIN files /\ ~args.overwrite
                THEN files
                ELSE SetKey(files, ArchivePath(order_id),
                            orders[order_id].request.products)
    /\ pos' = AfterDownload
    /\ pc' = IF pos' = Done THEN "done" ELSE "create_order"
    /\ UNCHANGED <<env_key, key_arg, api_key, dir_exists, pl_session, args, aoi, items,
                   item_ids, order_id, orders, exc, fn_in, fn_out>>

\* orders.download_order(order_id, ...) raises
DownloadOrderRaises ==
    /\ pc = "download_order"
    /\ calls' = Append(calls, DownloadCall)
    /\ Propagate("DownloadError")
    /\ UNCHANGED <<env_key, key_arg, api_key, dir_exists, pl_session, args, aoi, items,
                   item_ids, pos, order_id, orders, files, fn_in, fn_out>>

\* the steps of a process whose inputs are drawn from the given sets
Run(keys, argsets, sizes) ==
    \/ \E key \in keys : Construct(key)
    \/ \E a \in argsets : Download(a)
    \/ ResolveAoi
    \/ ParseDates
    \/ \E n \in sizes : SearchReturns(n)
    \/ SearchRaises
    \/ CheckItems
    \/ \E t \in Timestamps : WriteMetadataReturns(t)
    \/ \E t \in Timestamps : WriteMetadataRaises(t)
    \/ CreateOrderReturns
    \/ CreateOrderRaises
    \/ WaitReturns
    \/ WaitRaises
    \/ DownloadOrderReturns
    \/ DownloadOrderRaises

\* every constructor and download() argument, small search results
Next == Run(ApiKeyArgs, DownloadArgs, SearchSizes)

Spec == Init /\ [][Next]_vars

\* the call of the module's own main (the key in the environment), with every
\* item_types and bundles list, and search results of one or several chunks
InitBulk == Init /\ env_key = "env-key"

NextBulk == Run({None}, BulkArgs, BulkSizes)

SpecBulk == InitBulk /\ [][NextBulk]_vars

\* the same runs when every call to the order service that is started comes
\* to its end: a call that can return does return, unless it raises
Fairness ==
    /\ WF_vars(CreateOrderReturns)
    /\ WF_vars(WaitReturns)
    /\ WF_vars(DownloadOrderReturns)

SpecLive == InitBulk /\ [][NextBulk]_vars /\ Fairness

(***************************************************************************)
(* The same download() run a second time into the same download directory  *)
(***************************************************************************)
\* two consecutive values of datetime.now().strftime("%Y%m%d_%H%M%S")
ClockSeconds == <<"20200301_093000", "20200301_093001">>

\* datetime.now() when the metadata file is named: the clock does not go
\* back, and a second call may fall into the second of the call before it
ClockNow ==
    LET used == {k \in DOMAIN ClockSeconds :
                    \E i \in DOMAIN calls : /\ calls[i].op = "to_file"
                                            /\ calls[i].path[2] = ClockSeconds[k]}
    IN  {ClockSeconds[k] : k \in {j \in DOMAIN ClockSeconds : \A u \in used : j >= u}}

\* the errors of the collaborators (catalog, disk, order service)
Transient == {"SearchError", "WriteError", "OrderError", "DownloadError"}

\* mutant of Rerun: the second run resumes the order loop at the combination
\* that failed, from a checkpoint of the first run
Rerun_Resumes ==
    /\ pc = "raised"
    /\ exc \in {"OrderError", "DownloadError"}
    /\ \A i \in DOMAIN calls : calls[i].op # "exit"
    /\ calls' = Append(calls, [op |-> "exit", status |-> ExitStatus, exc |-> exc])
    /\ pc' = "create_order"
    /\ exc' = None
    /\ UNCHANGED <<env_key, key_arg, api_key, dir_exists, pl_session, args, aoi, items,
                   item_ids, pos, order_id, orders, files, fn_in, fn_out>>

\* the process has ended on an error of a collaborator, and the same call is
\* run again: the locals of download() are new, the download directory and
\* the order service are as the first run left them
Rerun ==
    /\ pc = "raised"
    /\ exc \in Transient
    /\ \A i \in DOMAIN calls : calls[i].op # "exit"
    /\ calls' = Append(calls, [op |-> "exit", status |-> ExitStatus, exc |-> exc])
    /\ pc' = "load_aoi"
    /\ aoi' = NoAoi
    /\ items' = <<>>
    /\ item_ids' = <<>>
    /\ pos' = Done
    /\ order_id' = NoOrder
    /\ exc' = None
    /\ UNCHANGED <<env_key, key_arg, api_key, dir_exists, pl_session, args, orders,
                   files, fn_in, fn_out>>

\* the call that is run twice: the module's own main
RerunArgs == BulkArgs

\* the catalog holds the same few scenes during both runs
RerunSizes == {MaxFew}

NextRerun ==
    \/ Construct(None)
    \/ \E a \in RerunArgs : Download(a)
    \/ ResolveAoi
    \/ ParseDates
    \/ \E n \in RerunSizes : SearchReturns(n)
    \/ SearchRaises
    \/ CheckItems
    \/ \E t \in ClockNow : WriteMetadataReturns(t)
    \/ \E t \in ClockNow : WriteMetadataRaises(t)
    \/ CreateOrderReturns
    \/ CreateOrderRaises
    \/ WaitReturns
    \/ WaitRaises
    \/ DownloadOrderReturns
    \/ DownloadOrderRaises
    \/ Rerun

SpecRerun == InitBulk /\ [][NextRerun]_vars

(***************************************************************************)
(* The pure functions, each applied alone to the inputs of its own         *)
(* specification                                                           *)
(***************************************************************************)
\* list(self._chunk_list(lst, chunk_size))
ApplyChunkList ==
    /\ fn_in.fn = "_chunk_list"
    /\ fn_out.n = 0
    /\ fn_out' = [n |-> 1, value |-> ChunkList(fn_in.lst, fn_in.chunk_size)]
    /\ UNCHANGED <<env_key, key_arg, api_key, dir_exists, pl_session, pc, args, aoi,
                   items, item_ids, pos, order_id, calls, orders, files, exc, fn_in>>

InitChunk ==
    /\ ProcInit
    /\ env_key = None
    /\ fn_in \in ChunkInputs
    /\ fn_out = NoResult

NextChunk == ApplyChunkList

SpecChunk == InitChunk /\ [][NextChunk]_vars

\* self._load_aoi(geometry_info), and then _load_aoi of what it returned
ApplyLoadAoi ==
    /\ fn_in.fn = "_load_aoi"
    /\ fn_out.n < 2
    /\ fn_out' = [n |-> fn_out.n + 1,
                  value |-> LoadAoi(IF fn_out.n = 0 THEN fn_in.geometry_info
                                    ELSE fn_out.value)]
    /\ UNCHANGED <<env_key, key_arg, api_key, dir_exists, pl_session, pc, args, aoi,
                   items, item_ids, pos, order_id, calls, orders, files, exc, fn_in>>

InitAoi ==
    /\ ProcInit
    /\ env_key = None
    /\ fn_in \in AoiInputs
    /\ fn_out = NoResult

NextAoi == ApplyLoadAoi

SpecAoi == InitAoi /\ [][NextAoi]_vars

(***************************************************************************)
(* Properties                                                              *)
(***************************************************************************)
\* the ids of the features the search returned
FoundIds == [k \in DOMAIN items |-> items[k].id]

\* the products of the orders the order service accepted, in order
Submitted == [k \in DOMAIN orders |-> orders[k].request.products[1]]

\* the (chunk, item type, bundle) triples, chunk outermost and bundle
\* innermost, over the consecutive slices of at most 500 ids
ExpectedOrders(ids, types, bundles) ==
    LET per == Len(types) * Len(bundles)
        nchunks == (Len(ids) + 499) \div 500
    IN  [k \in 1..(nchunks * per) |->
            LET c == (k - 1) \div per
                t == ((k - 1) % per) \div Len(bundles)
                b == (k - 1) % Len(bundles)
            IN  [item_ids |-> SubSeq(ids, 500 * c + 1, Min(500 * (c + 1), Len(ids))),
                 item_type |-> types[t + 1],
                 product_bundle |-> bundles[b + 1]]]

\* C1: when the search returned N >= 1 ids and no call failed, the orders
\* submitted are exactly the (chunk, item type, bundle) triples, chunk outermost
\* and bundle innermost, over the consecutive slices of at most 500 ids:
\* ceil(N/500) * |item_types| * |bundles| orders of one product each; and while
\* the run goes on the orders submitted so far are the first of that list.
C1_OrdersAreTheTriplesInLoopOrder ==
    LET expected == ExpectedOrders(FoundIds, args.item_types, args.bundles)
    IN  /\ orders # <<>> =>
            /\ Len(orders) <= Len(expected)
            /\ \A k \in DOMAIN orders :
                  /\ Len(orders[k].request.products) = 1
                  /\ Submitted[k] = expected[k]
        /\ pc = "done" =>
            /\ Len(items) >= 1
            /\ Submitted = expected
            /\ Len(orders) = ((Len(items) + 499) \div 500)
                              * Len(args.item_types) * Len(args.bundles)

\* C1 witness: 1200 ids, one item type, one bundle: 3 orders of 500, 500 and
\* 200 ids
C1_Witness ==
    /\ pc = "done"
    /\ Len(items) = 1200
    /\ Len(args.item_types) = 1
    /\ Len(args.bundles) = 1
    /\ Len(orders) = 3
    /\ [k \in 1..3 |-> Len(Submitted[k].item_ids)] = <<500, 500, 200>>

RECURSIVE Concat(_)
Concat(seqs) == IF seqs = <<>> THEN <<>> ELSE Head(seqs) \o Concat(Tail(seqs))

\* C2: the chunks _chunk_list yields concatenate to the list, in order; each
\* has between 1 and chunk_size items, and every chunk but the last has
\* exactly chunk_size; an empty list yields no chunk.
C2_ChunksPartitionTheList ==
    (fn_in.fn = "_chunk_list" /\ fn_out.n = 1) =>
        LET chunks == fn_out.value
        IN  /\ Concat(chunks) = fn_in.lst
            /\ \A k \in DOMAIN chunks :
                  /\ Len(chunks[k]) >= 1
                  /\ Len(chunks[k]) <= fn_in.chunk_size
                  /\ k < Len(chunks) => Len(chunks[k]) = fn_in.chunk_size
            /\ Len(fn_in.lst) = 0 => chunks = <<>>

\* C2 witness: three items in chunks of two: a full chunk and a short last one
C2_Witness ==
    /\ fn_in.fn = "_chunk_list"
    /\ fn_out.n = 1
    /\ fn_in.lst = <<"a", "b", "a">>
    /\ fn_in.chunk_size = 2
    /\ fn_out.value = << <<"a", "b">>, <<"a">> >>

\* the positions in calls of the calls of the given operations
CallsOf(ops) == {i \in DOMAIN calls : calls[i].op \in ops}

\* the catalog search was called and returned
SearchReturned == CallsOf({"search"}) # {} /\ exc # "SearchError"

\* the metadata files of the download directory
MetadataFiles == {f \in DOMAIN files : f[1] = "metadata"}

\* C3: when the search yields no record, download() ends the process with a
\* non-zero exit status before any order is created: no metadata file is
\* written, no order is created, no wait is issued, no archive is downloaded.
C3_EmptyResultExitsBeforeAnyOrder ==
    (SearchReturned /\ Len(items) = 0) =>
        /\ pc \in {"check_items", "exit"}
        /\ pc = "exit" => (exc = "SystemExit" /\ ExitStatus # 0)
        /\ CallsOf({"to_file", "create_order", "wait", "download_order"}) = {}
        /\ DOMAIN files = {}
        /\ orders = <<>>

\* C3 witness: the search returned nothing and the process has exited
C3_Witness ==
    /\ pc = "exit"
    /\ SearchReturned
    /\ Len(items) = 0
    /\ ExitStatus = 1

\* the calls made to the order service, in order
OrderCalls ==
    SelectSeq(calls, LAMBDA c : c.op \in {"create_order", "wait", "download_order"})

\* the orders whose archive is not on disk (yet)
InFlight == {id \in DOMAIN orders : ArchivePath(id) \notin DOMAIN files}

\* C4: the order loop is sequential: the calls to the order service go
\* create_order, wait, download_order, create_order, ..., each wait and each
\* download on the order id the create_order before it returned; at most one
\* order is in flight, the last one created, and so at most one download is
\* writing into the download directory.
C4_OneOrderAtATime ==
    LET oc == OrderCalls
    IN  /\ \A i \in DOMAIN oc :
              /\ oc[i].op = <<"create_order", "wait", "download_order">>[((i - 1) % 3) + 1]
              /\ i % 3 # 1 =>
                    /\ "order_id" \in DOMAIN oc[i - 1]
                    /\ oc[i].order_id = oc[i - 1].order_id
        /\ Cardinality(InFlight) <= 1
        /\ InFlight \subseteq {Len(orders)}
        /\ pc \in {"wait", "download_order"} => InFlight = {order_id}

\* C4 witness: the second order is being downloaded, the first one's archive is
\* on disk
C4_Witness ==
    /\ pc = "download_order"
    /\ Len(orders) = 2
    /\ InFlight = {2}
    /\ ArchivePath(1) \in DOMAIN files

\* the errors of the order service
OrderErrors == {"OrderError", "DownloadError"}

\* C5: when create_order, wait or download_order raises, the run aborts
\* there: the failed call is the last call of the run (no retry, no call for
\* a later combination: from then on nothing changes), the combinations tried
\* are the first ones of the loop order, each tried once, and the archives of
\* the combinations completed before stay on disk.
C5_FailureAbortsTheRun ==
    /\ [](exc \in OrderErrors =>
            /\ pc = "raised"
            /\ calls[Len(calls)].op \in {"create_order", "wait", "download_order"}
            /\ LET tried == SelectSeq(calls, LAMBDA c : c.op = "create_order")
                   expected == ExpectedOrders(FoundIds, args.item_types, args.bundles)
               IN  /\ Len(tried) <= Len(expected)
                   /\ \A k \in DOMAIN tried : tried[k].request.products[1] = expected[k]
            /\ \A id \in DOMAIN orders : id < Len(orders) => ArchivePath(id) \in DOMAIN files)
    /\ [][(exc \in OrderErrors) => (UNCHANGED <<pc, exc, calls, orders, files, pos>>)]_vars

\* C5 witness: a wait failed after one combination was completed and before
\* the last combination was reached
C5_Witness ==
    /\ pc = "raised"
    /\ exc = "OrderError"
    /\ calls[Len(calls)].op = "wait"
    /\ Len(orders) = 2
    /\ ArchivePath(1) \in DOMAIN files
    /\ Len(ExpectedOrders(FoundIds, args.item_types, args.bundles)) > 2

\* C6: metadata is written once, for all the records of the search result and
\* before the first create_order; a failed metadata write leaves no order.
C6_MetadataOnceBeforeOrders ==
    LET writes == CallsOf({"to_file"})
        creates == CallsOf({"create_order"})
    IN  /\ Cardinality(writes) <= 1
        /\ \A i \in writes, j \in creates : i < j
        /\ (creates # {} \/ pc \in {"create_order", "wait", "download_order", "done"}) =>
              /\ Cardinality(writes) = 1
              /\ Cardinality(MetadataFiles) = 1
              /\ \A f \in MetadataFiles :
                    /\ Len(files[f].features) = Len(items)
                    /\ \A k \in DOMAIN items : files[f].features[k]["id"] = items[k].id
        /\ exc = "WriteError" =>
              /\ pc = "raised"
              /\ creates = {}
              /\ orders = <<>>
              /\ MetadataFiles = {}

\* C6 witness: 1200 records are in the one metadata file and no order has
\* been created yet
C6_Witness ==
    /\ pc = "create_order"
    /\ orders = <<>>
    /\ Len(items) = 1200
    /\ Len(Chunks) = 3
    /\ Cardinality(MetadataFiles) = 1
    /\ \A f \in MetadataFiles : Len(files[f].features) = 1200

\* a str of the shape YYYY-MM-DD: four digits, two digits, two digits
MatchesYMD(s) ==
    /\ Len(s) = 10
    /\ \A i \in {1, 2, 3, 4, 6, 7, 9, 10} : IsDigit(s[i])
    /\ s[5] = "-"
    /\ s[8] = "-"

\* download() was called
Called == "start_date" \in DOMAIN args

\* the run has not reached the catalog search and has produced nothing
NothingSearchedNorWritten ==
    /\ pc \in {"load_aoi", "parse_dates", "raised"}
    /\ CallsOf({"search", "to_file", "create_order", "wait", "download_order"}) = {}
    /\ DOMAIN files = {}
    /\ orders = <<>>

\* C7 as stated: when start_date or end_date is not of the shape YYYY-MM-DD,
\* search() fails before any catalog search call, and the run leaves no
\* metadata file and no order.
C7_NotYMDFailsBeforeSearch ==
    (Called /\ (~MatchesYMD(args.start_date) \/ ~MatchesYMD(args.end_date))) =>
        NothingSearchedNorWritten

\* C7 amended: when strptime with %Y-%m-%d rejects start_date or end_date
\* (the pattern takes a four-digit year and a month and a day of one or two
\* digits, and the date must exist), search() fails with ValueError, or with
\* the error of reading the AOI file, before any catalog search call, and the
\* run leaves no metadata file and no order.
C7_UnparsedDateFailsBeforeSearch ==
    (Called /\ (Raised(Strptime(args.start_date)) \/ Raised(Strptime(args.end_date)))) =>
        /\ NothingSearchedNorWritten
        /\ pc = "raised" => exc \in {"ValueError", "DriverError"}

\* C7 witness: start_date parses, end_date does not, and the run has failed
\* with nothing searched
C7_Witness ==
    /\ Called
    /\ ~Raised(Strptime(args.start_date))
    /\ Raised(Strptime(args.end_date))
    /\ pc = "raised"
    /\ exc = "ValueError"
    /\ CallsOf({"search"}) = {}

\* C8: with no api_key argument and no PL_API_KEY value (neither given or
\* both empty), the constructor fails with ValueError before any network
\* activity: no session is created, and no search or order call follows.
C8_NoKeyNoSession ==
    (pc # "new" /\ ~Truthy(key_arg) /\ ~Truthy(env_key)) =>
        /\ pc = "raised"
        /\ exc = "ValueError"
        /\ pl_session = NoSession
        /\ calls = <<>>
        /\ orders = <<>>

\* C8 witness: constructed with no argument and no environment value
C8_Witness ==
    /\ pc = "raised"
    /\ key_arg = None
    /\ env_key = None
    /\ exc = "ValueError"
    /\ pl_session = NoSession

\* C9: _load_aoi of a geometry structure (not a str) returns it unchanged,
\* and so does _load_aoi of that result.
C9_ResolvedAoiUnchanged ==
    (fn_in.fn = "_load_aoi" /\ ~IsStr(fn_in.geometry_info) /\ fn_out.n >= 1) =>
        fn_out.value = fn_in.geometry_info

\* C9 witness: a structure that no file would resolve to, resolved twice
C9_Witness ==
    /\ fn_in.fn = "_load_aoi"
    /\ fn_in.geometry_info = Geometry("Point", {1, 3})
    /\ fn_out.n = 2
    /\ fn_out.value = Geometry("Point", {1, 3})

\* C10: _write_metadata does not mutate the records it is given: once it
\* was called, every feature of items is what the search returned.
C10_RecordsNotMutated ==
    CallsOf({"to_file"}) # {} => items = Features(Len(items))

\* the to_file calls that returned: the others are the last call of a run
\* that ended on WriteError
Persisted ==
    {i \in CallsOf({"to_file"}) :
        /\ ~(i = Len(calls) /\ exc = "WriteError")
        /\ ~(i < Len(calls) /\ calls[i + 1].op = "exit" /\ calls[i + 1].exc = "WriteError")}

\* C11: every persist call that returns creates exactly one new file and
\* never overwrites an existing one: after any sequence of persist calls into
\* the same download directory, two calls within the same clock second
\* included, there are as many metadata files as calls that returned.
C11_OneNewFilePerPersist ==
    Cardinality(MetadataFiles) = Cardinality(Persisted)

\* C12: with item_types or bundles empty, and a search result of at least one
\* record, the loops have no combination: no order is created, no wait and no
\* download is issued, the order service raises nothing, and once the metadata
\* file is written download() returns normally.
C12_EmptyListsNoOrders ==
    (Called /\ (args.item_types = <<>> \/ args.bundles = <<>>)) =>
        /\ orders = <<>>
        /\ CallsOf({"create_order", "wait", "download_order"}) = {}
        /\ pc \notin {"create_order", "wait", "download_order"}
        /\ exc \notin OrderErrors
        /\ (Len(items) >= 1 /\ Persisted # {}) =>
              /\ pc = "done"
              /\ ExitStatus = 0
              /\ Cardinality(MetadataFiles) = 1

\* C12 witness: two records found, no item type, two bundles: download() has
\* returned with the metadata file written and no order
C12_Witness ==
    /\ pc = "done"
    /\ Len(items) = 2
    /\ args.item_types = <<>>
    /\ Len(args.bundles) = 2
    /\ orders = <<>>
    /\ Cardinality(MetadataFiles) = 1

\* the wait call of the running combination
WaitCall == [op |-> "wait", order_id |-> order_id]

\* C13: download() has no timeout of its own.  When every create_order, wait
\* and download_order call comes to its end, a run that has entered the order
\* loop ends: normally, with one archive for every combination, unless a call
\* raised.  The only step out of a wait is that wait's own end: the order is
\* downloaded only after its wait returned, and while the wait has not ended
\* no later call is made.
C13_EndsWhenEveryCallEnds ==
    /\ (pc \in {"create_order", "wait", "download_order"})
            ~> (pc = "done" \/ exc \in OrderErrors)
    /\ [](pc = "done" =>
            /\ Len(orders) = Len(ExpectedOrders(FoundIds, args.item_types, args.bundles))
            /\ \A id \in DOMAIN orders : ArchivePath(id) \in DOMAIN files)
    /\ [](pc = "download_order" =>
            /\ orders[order_id].state = "success"
            /\ calls[Len(calls)] = WaitCall)
    /\ [][(pc = "wait") => (calls' = Append(calls, WaitCall))]_vars

\* C13 witness: 1200 ids, two item types, two bundles: the run has ended
\* normally after twelve orders, each with its archive
C13_Witness ==
    /\ pc = "done"
    /\ exc = None
    /\ Len(items) = 1200
    /\ Len(orders) = 12
    /\ \A id \in 1..12 : ArchivePath(id) \in DOMAIN files

\* the position in calls of the end of the first run, 0 while it is running
FirstRunEnd ==
    IF CallsOf({"exit"}) = {} THEN 0 ELSE CHOOSE i \in CallsOf({"exit"}) : TRUE

\* the calls of the first run, and those of the second
FirstRun == SubSeq(calls, 1, FirstRunEnd - 1)

SecondRun == SubSeq(calls, FirstRunEnd + 1, Len(calls))

\* the products of the create_order calls of a log, in order
Requested(log) ==
    LET creates == SelectSeq(log, LAMBDA c : c.op = "create_order")
    IN  [k \in DOMAIN creates |-> creates[k].request.products[1]]

\* the orders the order service accepted during a log
Accepted(log) ==
    SelectSeq(log, LAMBDA c : c.op = "create_order" /\ "order_id" \in DOMAIN c)

\* C14: no state of a run is carried to the next.  After an aborted run, the
\* same download() against the same catalog searches again, writes the
\* metadata again, and submits the orders again from the first combination:
\* the orders of the first run are submitted a second time, those whose
\* archive the first run downloaded included, and when the second run
\* returns it has submitted the full sequence.
C14_RerunStartsOver ==
    FirstRunEnd > 0 =>
        LET first == Requested(FirstRun)
            second == Requested(SecondRun)
            expected == ExpectedOrders(FoundIds, args.item_types, args.bundles)
            ops == [k \in DOMAIN SecondRun |-> SecondRun[k].op]
            before == Len(Accepted(FirstRun))
        IN  /\ Len(second) <= Len(expected)
            /\ \A k \in DOMAIN second : second[k] = expected[k]
            /\ \A k \in DOMAIN first : k <= Len(second) => second[k] = first[k]
            /\ second # <<>> =>
                  /\ Len(ops) >= 3
                  /\ SubSeq(ops, 1, 3) = <<"search", "to_file", "create_order">>
            /\ pc = "done" =>
                  /\ second = expected
                  /\ Len(orders) = before + Len(expected)
                  /\ \A k \in 1..before :
                        orders[before + k].request = orders[k].request

\* C14 witness: the first run downloaded the first order's archive and failed
\* at the second order; the second run has returned after submitting all four
\* combinations, the first order's request among them
C14_Witness ==
    /\ FirstRunEnd > 0
    /\ pc = "done"
    /\ Len(Accepted(FirstRun)) = 2
    /\ ArchivePath(1) \in DOMAIN files
    /\ ArchivePath(2) \notin DOMAIN files
    /\ Len(orders) = 6
    /\ orders[3].request = orders[1].request
    /\ ArchivePath(3) \in DOMAIN files

\* the arguments of the running download() other than threads
ArgsButThreads == [k \in DOMAIN args \ {"threads"} |-> args[k]]

\* the calls of a run none of whose calls fails, from the arguments a (threads
\* not among them) and the answers of the collaborators: the ids the catalog
\* returned and the second t of the clock
CallsOfRun(a, ids, t) ==
    LET expected == ExpectedOrders(ids, a.item_types, a.bundles)
        read == IF IsStr(a.geometry_info)
                THEN << [op |-> "read_file", path |-> a.geometry_info.str] >>
                ELSE <<>>
        search == [op |-> "search", item_types |-> a.item_types,
                   geometry |-> LoadAoi(a.geometry_info),
                   search_filter |-> SearchFilter(Strptime(a.start_date),
                                                  Strptime(a.end_date), a.cloud_cover)]
        write == [op |-> "to_file", path |-> MetadataPath(t, "GeoJSON"),
                  driver |-> "GeoJSON"]
        create(k) == [op |-> "create_order", order_id |-> k,
                      request |-> OrderRequest(expected[k].item_ids, expected[k].item_type,
                                               expected[k].product_bundle)]
        wait(k) == [op |-> "wait", order_id |-> k]
        download(k) == [op |-> "download_order", order_id |-> k,
                        directory |-> "download_dir", overwrite |-> a.overwrite,
                        progress_bar |-> a.progress_bar]
    IN  read \o <<search, write>> \o
        [j \in 1..(3 * Len(expected)) |->
            LET k == ((j - 1) \div 3) + 1
            IN  CASE (j - 1) % 3 = 0 -> create(k)
                  [] (j - 1) % 3 = 1 -> wait(k)
                  [] OTHER -> download(k)]

\* the call c is the call e, as far as c went (a create_order that raised
\* returned no order id)
SameCall(c, e) ==
    /\ DOMAIN c \subseteq DOMAIN e
    /\ \A f \in DOMAIN c : c[f] = e[f]

\* C15: threads is not consumed.  The calls of a run (AOI read, search,
\* metadata write, create_order, wait, download_order, with their arguments,
\* in order) are determined by the other arguments and the answers of the
\* collaborators: runs that differ only in threads make the same calls.
C15_ThreadsNotConsumed ==
    Called =>
        \E t \in Timestamps :
            LET run == CallsOfRun(ArgsButThreads, FoundIds, t)
            IN  /\ Len(calls) <= Len(run)
                /\ \A i \in DOMAIN calls : SameCall(calls[i], run[i])
                /\ \A i \in DOMAIN calls : \A f \in DOMAIN calls[i] : f # "threads"

\* C15 witness: a call with threads = 6, the AOI read from a file, has
\* returned after the 15 calls of two ids, two item types and two bundles
C15_Witness ==
    /\ pc = "done"
    /\ args.threads = 6
    /\ IsStr(args.geometry_info)
    /\ Len(items) = 2
    /\ Len(calls) = 15
    /\ calls = CallsOfRun(ArgsButThreads, FoundIds, "20200301_093000")

\* the values of a list
Range(lst) == {lst[i] : i \in DOMAIN lst}

\* no value occurs twice in the list
Distinct(lst) == Cardinality(Range(lst)) = Len(lst)

\* every order holds between 1 and 500 ids
OrdersWithinLimit ==
    \A k \in DOMAIN orders :
        /\ Len(Submitted[k].item_ids) >= 1
        /\ Len(Submitted[k].item_ids) <= 500

\* no id is in two orders of the same item type and bundle
NoIdOrderedTwice ==
    \A j, k \in DOMAIN orders :
        (/\ j < k
         /\ Submitted[j].item_type = Submitted[k].item_type
         /\ Submitted[j].product_bundle = Submitted[k].product_bundle) =>
            Range(Submitted[j].item_ids) \cap Range(Submitted[k].item_ids) = {}

\* C16 as stated: every order submitted holds between 1 and 500 ids, and,
\* the ids the catalog returned being distinct, no id is in two orders of the
\* same item type and bundle.
C16_OrdersWithinLimitNoIdTwice ==
    /\ OrdersWithinLimit
    /\ Distinct(FoundIds) => NoIdOrderedTwice

\* C16 amended: every order submitted holds between 1 and 500 ids, and, the
\* ids the catalog returned being distinct and neither item_types nor bundles
\* naming a value twice, no id is in two orders of the same item type and
\* bundle.
C16_NoIdTwiceForDistinctLists ==
    /\ OrdersWithinLimit
    /\ (/\ Called
        /\ Distinct(FoundIds)
        /\ Distinct(args.item_types)
        /\ Distinct(args.bundles)) => NoIdOrderedTwice

\* C16 witness: 1200 distinct ids, two item types, two bundles: twelve orders,
\* the first and the fifth of the same item type and bundle
C16_Witness ==
    /\ Len(orders) = 12
    /\ Len(items) = 1200
    /\ Distinct(FoundIds)
    /\ Distinct(args.item_types)
    /\ Submitted[1].item_type = Submitted[5].item_type
    /\ Submitted[1].product_bundle = Submitted[5].product_bundle
    /\ Len(Submitted[1].item_ids) = 500
    /\ Len(Submitted[12].item_ids) = 200

\* C17: passing api_key to PlanetDownloader() is sufficient: whenever the
\* construction succeeds the session holds the key that passed the check, the
\* api_key argument when one is given and the environment's value otherwise.
C17_SessionUsesCheckedKey ==
    pl_session.created =>
        /\ Truthy(pl_session.auth)
        /\ pl_session.auth = api_key

====
